---- MODULE Spec2Model ----
(***************************************************************************)
(* Class2Ics: translation of a weekly class schedule into calendar events  *)
(* (src/core/schedule.py, driven by src/main.py).                          *)
(*                                                                         *)
(* Text is modelled as a sequence of one-character strings.  The week      *)
(* suffix character of the source (U+5468) is written "w" here.            *)
(* A date is a day number, a datetime a record [day, minute] (wall clock,  *)
(* as Python adds a timedelta to an aware datetime), a timedelta the       *)
(* normalised record [days, minutes] with 0 <= minutes < 1440.             *)
(***************************************************************************)
EXTENDS Integers, Sequences, FiniteSets, TLC

VARIABLES first_monday, class_list, pc, idx, events, output_file, error, call

vars == <<first_monday, class_list, pc, idx, events, output_file, error, call>>

(***************************************************************************)
(* Bounds of the checked instances.                                        *)
(***************************************************************************)
MaxWeek == 4

MaxTokens == 2

MaxEntries == 3

MaxProjWeek == 3

(***************************************************************************)
(* Python built-ins used by the source.                                    *)
(***************************************************************************)
WeekSuffix == "w"

Digits == {"0", "1", "2", "3", "4", "5", "6", "7", "8", "9"}

DigitVal(c) ==
    CASE c = "0" -> 0 [] c = "1" -> 1 [] c = "2" -> 2 [] c = "3" -> 3
      [] c = "4" -> 4 [] c = "5" -> 5 [] c = "6" -> 6 [] c = "7" -> 7
      [] c = "8" -> 8 [] c = "9" -> 9

\* str.split(sep) and re.split of a one-character alternation: the pieces
\* between the separator characters, empty pieces included.
RECURSIVE Split(_, _)
Split(s, seps) ==
    IF \A p \in 1..Len(s) : s[p] \notin seps THEN <<s>>
    ELSE LET p == CHOOSE q \in 1..Len(s) :
                      s[q] \in seps /\ \A r \in (q + 1)..Len(s) : s[r] \notin seps
         IN  Split(SubSeq(s, 1, p - 1), seps) \o <<SubSeq(s, p + 1, Len(s))>>

RECURSIVE DecimalValue(_)
DecimalValue(s) ==
    IF s = <<>> THEN 0
    ELSE 10 * DecimalValue(SubSeq(s, 1, Len(s) - 1)) + DigitVal(s[Len(s)])

\* range(a, b) as the sequence it iterates.
PyRange(a, b) == [k \in 1..(IF b > a THEN b - a ELSE 0) |-> a + k - 1]

\* list[0] and list[-1]
First(l) == l[1]

Last(l) == l[Len(l)]

(***************************************************************************)
(* Results: a value, or the exception that was raised.                     *)
(***************************************************************************)
Ok(v) == [ok |-> TRUE, val |-> v]

\* int() names the text it could not convert
ValueError(text) == [ok |-> FALSE, type |-> "ValueError", msg |-> text]

\* "list index out of range"
IndexError ==
    [ok |-> FALSE, type |-> "IndexError",
     msg |-> <<"l", "i", "s", "t", " ", "i", "n", "d", "e", "x", " ", "o", "u", "t",
               " ", "o", "f", " ", "r", "a", "n", "g", "e">>]

\* a dictionary lookup names the key it did not find
KeyError(key) == [ok |-> FALSE, type |-> "KeyError", msg |-> key]

\* a list built element by element: the first exception met leaves the loop
Collect(rs) ==
    IF \E k \in 1..Len(rs) : ~rs[k].ok
    THEN rs[CHOOSE k \in 1..Len(rs) : ~rs[k].ok /\ \A j \in 1..(k - 1) : rs[j].ok]
    ELSE Ok([k \in 1..Len(rs) |-> rs[k].val])

\* int(text): the value of a decimal numeral, ValueError for anything else
\* the alphabet of the model can spell.
PyInt(s) ==
    IF s # <<>> /\ \A p \in 1..Len(s) : s[p] \in Digits
    THEN Ok(DecimalValue(s))
    ELSE ValueError(s)

(***************************************************************************)
(* parse_week_ranges                                                       *)
(***************************************************************************)
\* a parser that splits on "-" alone and leaves the week suffix on the number
SplitRangeNoSuffix(week_range) == Split(week_range, {"-"})

\* re.split(r"-|w", week_range)
SplitRange(week_range) == Split(week_range, {"-", WeekSuffix})

\* [int(item) for item in parsed_range if item]
RECURSIVE IntEach(_)
IntEach(items) ==
    IF items = <<>> THEN <<>> ELSE <<PyInt(Head(items))>> \o IntEach(Tail(items))

IntItems(parsed_range) == Collect(IntEach(parsed_range))

ParseToken(week_range) ==
    IntItems(SelectSeq(SplitRange(week_range), LAMBDA item : item # <<>>))

\* the loop over week_ranges_strs, appending one parsed_range per token
RECURSIVE ParseEach(_)
ParseEach(week_ranges_strs) ==
    IF week_ranges_strs = <<>> THEN <<>>
    ELSE <<ParseToken(Head(week_ranges_strs))>> \o ParseEach(Tail(week_ranges_strs))

ParseTokens(week_ranges_strs) == Collect(ParseEach(week_ranges_strs))

parse_week_ranges(week_range_str) == ParseTokens(Split(week_range_str, {","}))

(***************************************************************************)
(* datetime arithmetic and the date/time projector                         *)
(***************************************************************************)
MinutesPerDay == 1440

\* the carry of minutes into days
Carry(days, m) == [days |-> days + (m \div MinutesPerDay), minutes |-> m % MinutesPerDay]

\* a timedelta whose weeks count as days
timedeltaWeeksAsDays(weeks, days, hours, minutes) == Carry(weeks + days, 60 * hours + minutes)

\* datetime.timedelta(weeks=, days=, hours=, minutes=), normalised
timedelta(weeks, days, hours, minutes) == Carry(7 * weeks + days, 60 * hours + minutes)

\* datetime + timedelta
DatetimeSum(c) == [day |-> c.days, minute |-> c.minutes]

DatetimeAdd(dt, td) == DatetimeSum(Carry(dt.day + td.days, dt.minute + td.minutes))

\* datetime.date()
DateOf(dt) == dt.day

\* date + timedelta: only the days of the timedelta count
DateAdd(d, td) == d + td.days

\* first_monday + timedelta(...) once both int(...) of the clock returned
AddClock(anchor, week_number, day_of_week, hours, minutes) ==
    IF ~hours.ok THEN hours
    ELSE IF ~minutes.ok THEN minutes
    ELSE Ok(DatetimeAdd(anchor, timedelta(week_number - 1, day_of_week - 1,
                                          hours.val, minutes.val)))

\* time.split(":")[0] and [1]
ClockParts(anchor, week_number, day_of_week, parts) ==
    AddClock(anchor, week_number, day_of_week, PyInt(parts[1]),
             IF Len(parts) >= 2 THEN PyInt(parts[2]) ELSE IndexError)

convert_to_datetime(anchor, week_number, day_of_week, time) ==
    ClockParts(anchor, week_number, day_of_week, Split(time, {":"}))

\* a date projection that takes the weekday as 0-based
convert_to_dateZeroBased(anchor, week_number, day_of_week) ==
    DateAdd(DateOf(anchor), timedelta(week_number - 1, day_of_week, 0, 0))

convert_to_date(anchor, week_number, day_of_week) ==
    DateAdd(DateOf(anchor), timedelta(week_number - 1, day_of_week - 1, 0, 0))

(***************************************************************************)
(* One iteration of the loop of convert_class_schedule_to_ics: the event   *)
(* of one schedule entry, or the exception that ends the run.              *)
(***************************************************************************)
\* the elements of a list, as a set
Elems(l) == {l[k] : k \in 1..Len(l)}

\* a covered range that leaves out its end week
RangeWeeksEndExclusive(week_range) == PyRange(First(week_range), Last(week_range))

\* range(week_range[0], week_range[-1] + 1)
RangeWeeks(week_range) == PyRange(First(week_range), Last(week_range) + 1)

\* week_numbers after the loop of week_numbers.update(...)
CoveredWeeks(week_ranges) ==
    UNION {Elems(RangeWeeks(week_ranges[r])) : r \in 1..Len(week_ranges)}

\* a sweep that also visits the last week
SweptWeeksInclusive(week_ranges) ==
    PyRange(First(First(week_ranges)), Last(Last(week_ranges)) + 1)

\* the weeks the exception loop visits, range(week_ranges[0][0], week_ranges[-1][-1])
SweptWeeks(week_ranges) == PyRange(First(First(week_ranges)), Last(Last(week_ranges)))

\* if week_number not in week_numbers, over the swept weeks in loop order
Uncovered(swept, week_numbers) ==
    SelectSeq(swept, LAMBDA week_number : week_number \notin week_numbers)

\* the weeks whose dates are appended to exception_dates
ExceptionWeeks(week_ranges) == Uncovered(SweptWeeks(week_ranges), CoveredWeeks(week_ranges))

\* exception_dates.append(convert_to_date(first_monday, week_number, int(class_["xqj"])))
ExceptionDates(anchor, exception_weeks, day_of_week) ==
    [k \in 1..Len(exception_weeks) |-> convert_to_date(anchor, exception_weeks[k], day_of_week)]

\* a count that is the difference of the two weeks
RecurCountDifference(week_ranges) == Last(Last(week_ranges)) - First(First(week_ranges))

\* count = week_ranges[-1][-1] - week_ranges[0][0] + 1
RecurCount(week_ranges) == Last(Last(week_ranges)) - First(First(week_ranges)) + 1

\* ical.types.Recur(freq=WEEKLY, count=..., interval=1)
RecurringRule(week_ranges) ==
    [freq |-> "WEEKLY", count |-> RecurCount(week_ranges), interval |-> 1]

\* the week dtstart is projected from, week_ranges[0][0]
EventStartWeek(week_ranges) == First(First(week_ranges))

\* an end projected from the last week of the last range
EventEndWeekLast(week_ranges) == Last(Last(week_ranges))

\* the week dtend is projected from, week_ranges[0][0] again
EventEndWeek(week_ranges) == First(First(week_ranges))

\* class_["xqmc"][:-2] + " " + class_["cdmc"]
Location(class_) ==
    SubSeq(class_.xqmc, 1, Len(class_.xqmc) - 2) \o <<" ">> \o class_.cdmc

\* ical.event.Event(...), after the week loops; the library's own validation of
\* the event is outside the model
ClassEvent(anchor, class_, week_ranges, day_of_week, start_time, end_time) ==
    IF \E r \in 1..Len(week_ranges) : week_ranges[r] = <<>> THEN IndexError
    ELSE Ok([dtstart     |-> start_time.val,
             dtend       |-> end_time.val,
             summary     |-> class_.kcmc,
             description |-> class_.xm,
             location    |-> Location(class_),
             rrule       |-> RecurringRule(week_ranges),
             exdate      |-> ExceptionDates(anchor, ExceptionWeeks(week_ranges), day_of_week)])

\* the two convert_to_datetime calls returned or raised
WithTimes(anchor, class_, week_ranges, day_of_week, start_time, end_time) ==
    IF ~start_time.ok THEN start_time
    ELSE IF ~end_time.ok THEN end_time
    ELSE ClassEvent(anchor, class_, week_ranges, day_of_week, start_time, end_time)

\* start_time and end_time, from week_ranges[0][0] and int(class_["xqj"])
WithWeekday(anchor, class_, week_ranges, xqj, start_time_str, end_time_str) ==
    IF First(week_ranges) = <<>> THEN IndexError
    ELSE IF ~xqj.ok THEN xqj
    ELSE WithTimes(anchor, class_, week_ranges, xqj.val,
             convert_to_datetime(anchor, EventStartWeek(week_ranges), xqj.val, start_time_str),
             convert_to_datetime(anchor, EventEndWeek(week_ranges), xqj.val, end_time_str))

\* start_time_str and end_time_str, from the first and the last period of jcor
WithPeriods(anchor, timetable, class_, week_ranges, periods) ==
    IF First(periods) \notin DOMAIN timetable THEN KeyError(First(periods))
    ELSE IF Last(periods) \notin DOMAIN timetable THEN KeyError(Last(periods))
    ELSE WithWeekday(anchor, class_, week_ranges, PyInt(class_.xqj),
             First(Split(timetable[First(periods)], {"-"})),
             Last(Split(timetable[Last(periods)], {"-"})))

\* week_ranges = parse_week_ranges(class_["zcd"]) returned or raised
WithRanges(anchor, configs, class_, parsed) ==
    IF ~parsed.ok THEN parsed
    ELSE WithPeriods(anchor, configs.timetable, class_, parsed.val, Split(class_.jcor, {"-"}))

TranslateEntry(anchor, configs, class_) ==
    WithRanges(anchor, configs, class_, parse_week_ranges(class_.zcd))

(***************************************************************************)
(* Inputs of the checked instances.                                        *)
(***************************************************************************)
DigitChar(d) ==
    CASE d = 0 -> "0" [] d = 1 -> "1" [] d = 2 -> "2" [] d = 3 -> "3"
      [] d = 4 -> "4" [] d = 5 -> "5" [] d = 6 -> "6" [] d = 7 -> "7"
      [] d = 8 -> "8" [] d = 9 -> "9"

RECURSIVE Numeral(_)
Numeral(n) == IF n < 10 THEN <<DigitChar(n)>> ELSE Numeral(n \div 10) \o <<DigitChar(n % 10)>>

\* "<start>-<end>w" for a pair, "<n>w" for a single week
FormatToken(t) ==
    IF Len(t) = 2 THEN Numeral(t[1]) \o <<"-">> \o Numeral(t[2]) \o <<WeekSuffix>>
    ELSE Numeral(t[1]) \o <<WeekSuffix>>

RECURSIVE JoinComma(_)
JoinComma(strs) ==
    IF Len(strs) = 1 THEN strs[1]
    ELSE JoinComma(SubSeq(strs, 1, Len(strs) - 1)) \o <<",">> \o strs[Len(strs)]

FormatWeekRanges(toks) == JoinComma([k \in 1..Len(toks) |-> FormatToken(toks[k])])

SeqsUpTo(S, n) == UNION {[1..k -> S] : k \in 1..n}

\* the week-range tokens of the documented grammar: every "<s>-<e>w" and "<n>w"
\* over the weeks 1..MaxWeek, and two with two-digit weeks
WeekTokens ==
    {<<s, e>> : s \in 1..MaxWeek, e \in 1..MaxWeek} \cup {<<n>> : n \in 1..MaxWeek}
        \cup {<<10, 12>>, <<16>>}

WeekTokenSeqs == SeqsUpTo(WeekTokens, MaxTokens)

\* "abcw" (a non-numeric token) and "w" (a token with no number at all)
MalformedTokens == {<<"a", "b", "c", WeekSuffix>>, <<WeekSuffix>>}

\* "1-4,6-8w", the form of the docstring of parse_week_ranges, and "1-4w,6-8w"
DocZcd == <<"1", "-", "4", ",", "6", "-", "8", WeekSuffix>>

GapZcd == <<"1", "-", "4", WeekSuffix, ",", "6", "-", "8", WeekSuffix>>

ZcdStrings ==
    {JoinComma(ts) : ts \in SeqsUpTo({FormatToken(t) : t \in WeekTokens} \cup MalformedTokens,
                                     MaxTokens)}
        \cup {DocZcd, GapZcd}

\* "1-4w,6-8w", "3w", "10-12w,16w" and "abcw"
SampleZcd ==
    {GapZcd, <<"3", WeekSuffix>>,
     <<"1", "0", "-", "1", "2", WeekSuffix, ",", "1", "6", WeekSuffix>>,
     <<"a", "b", "c", WeekSuffix>>}

\* configs["timetable"]: three periods
Timetable ==
    (<<"1">> :> <<"0", "8", ":", "0", "0", "-", "0", "8", ":", "4", "5">>)
 @@ (<<"2">> :> <<"0", "8", ":", "5", "5", "-", "0", "9", ":", "4", "0">>)
 @@ (<<"3">> :> <<"1", "0", ":", "0", "0", "-", "1", "0", ":", "4", "5">>)

Configs == [timetable |-> Timetable]

\* period tokens: a range, a single period, a period missing from the timetable,
\* and a token that is no period at all
Jcors == {<<"1", "-", "2">>, <<"3">>, <<"2", "-", "9">>, <<"x">>}

WeekdayStrs == {<<"1">>, <<"2">>, <<"3">>, <<"4">>, <<"5">>, <<"6">>, <<"7">>}

Courses ==
    {[kcmc |-> <<"M", "a", "t", "h">>, xm |-> "Gauss",
      xqmc |-> <<"E", "a", "s", "t", "X", "Q">>, cdmc |-> <<"A", "1", "0", "1">>],
     [kcmc |-> <<"A", "r", "t">>, xm |-> "Noether",
      xqmc |-> <<"W", "e", "s", "t", "X", "Q">>, cdmc |-> <<"B", "2">>]}

Entry(course, zcd, jcor, xqj) ==
    [kcmc |-> course.kcmc, xm |-> course.xm, xqmc |-> course.xqmc, cdmc |-> course.cdmc,
     zcd |-> zcd, jcor |-> jcor, xqj |-> xqj]

\* the entries of the several-entry runs
RunEntries ==
    {Entry(c, z, j, <<"5">>) : c \in Courses,
                               z \in {GapZcd, <<"3", WeekSuffix>>, <<"a", "b", "c", WeekSuffix>>},
                               j \in {<<"1", "-", "2">>, <<"2", "-", "9">>}}

\* the entries of the one-entry runs: every week-range string on a Friday,
\* and the sample week-range strings with every period token on every weekday
OneEntries ==
    LET c == CHOOSE c \in Courses : c.xm = "Gauss"
    IN  {Entry(c, z, <<"1", "-", "2">>, <<"5">>) : z \in ZcdStrings}
        \cup {Entry(c, z, j, x) : z \in SampleZcd, j \in Jcors, x \in WeekdayStrs}

\* main.py parse_date: the anchor is a date at 00:00
Midnight(day) == [day |-> day, minute |-> 0]

NoCall == [fn |-> "none"]

NoError == [type |-> "none"]

NoFile == [state |-> "absent", events |-> <<>>]

(***************************************************************************)
(* convert_class_schedule_to_ics                                           *)
(***************************************************************************)
InitRun(lists) ==
    /\ first_monday = Midnight(0)
    /\ class_list \in lists
    /\ pc = "loop"
    /\ idx = 1
    /\ events = <<>>
    /\ output_file = NoFile
    /\ error = NoError
    /\ call = NoCall

\* the schedules of the several-entry runs, the empty one included
ClassLists == {<<>>} \cup {l : l \in SeqsUpTo(RunEntries, MaxEntries)}

Init == InitRun(ClassLists)

InitEntry == InitRun({<<e>> : e \in OneEntries})

\* an insertion at the head of the list
PrependEvent(evs, class_event) == <<class_event>> \o evs

\* class_schedule.events.append(class_event)
AppendEvent(evs, class_event) == Append(evs, class_event)

\* the iteration returned an event: it joins the calendar
Emitted(r) ==
    /\ r.ok
    /\ events' = AppendEvent(events, r.val)
    /\ idx' = idx + 1
    /\ UNCHANGED <<pc, error>>

\* a loop that skips the failing entry and goes on
RaisedAndSkipped(r) ==
    /\ ~r.ok
    /\ idx' = idx + 1
    /\ UNCHANGED <<pc, error, events>>

\* the iteration raised: the run ends with that exception
Raised(r) ==
    /\ ~r.ok
    /\ error' = [type |-> r.type, msg |-> r.msg]
    /\ pc' = "aborted"
    /\ UNCHANGED <<idx, events>>

\* one iteration of "for class_ in class_list" that ends normally
TranslateNext ==
    /\ pc = "loop"
    /\ idx <= Len(class_list)
    /\ Emitted(TranslateEntry(first_monday, Configs, class_list[idx]))
    /\ UNCHANGED <<first_monday, class_list, output_file, call>>

\* one iteration that raises: the exception leaves the function
Abort ==
    /\ pc = "loop"
    /\ idx <= Len(class_list)
    /\ Raised(TranslateEntry(first_monday, Configs, class_list[idx]))
    /\ UNCHANGED <<first_monday, class_list, output_file, call>>

\* output_file_path.open("w") after the loop
OpenOutput ==
    /\ pc = "loop"
    /\ idx > Len(class_list)
    /\ output_file' = [state |-> "open", events |-> <<>>]
    /\ pc' = "write"
    /\ UNCHANGED <<first_monday, class_list, idx, events, error, call>>

\* output_file.write(IcsCalendarStream.calendar_to_ics(class_schedule))
WriteOutput ==
    /\ pc = "write"
    /\ output_file' = [state |-> "written", events |-> events]
    /\ pc' = "done"
    /\ UNCHANGED <<first_monday, class_list, idx, events, error, call>>

Next == TranslateNext \/ Abort \/ OpenOutput \/ WriteOutput

Spec == Init /\ [][Next]_vars

SpecEntry == InitEntry /\ [][Next]_vars

(***************************************************************************)
(* The pure functions, called on their own.                                *)
(***************************************************************************)
IdleRun ==
    /\ first_monday = Midnight(0)
    /\ class_list = <<>>
    /\ pc = "idle"
    /\ idx = 1
    /\ events = <<>>
    /\ output_file = NoFile
    /\ error = NoError

\* parse_week_ranges on the text of a token sequence
InitParse ==
    /\ IdleRun
    /\ \E toks \in WeekTokenSeqs :
          call = [fn |-> "parse_week_ranges", tokens |-> toks,
                  arg |-> FormatWeekRanges(toks), done |-> FALSE, ret |-> Ok(<<>>)]

ParseCall ==
    /\ call.fn = "parse_week_ranges"
    /\ ~call.done
    /\ call' = [call EXCEPT !.done = TRUE, !.ret = parse_week_ranges(call.arg)]
    /\ UNCHANGED <<first_monday, class_list, pc, idx, events, output_file, error>>

NextParse == ParseCall

SpecParse == InitParse /\ [][NextParse]_vars

TwoDigits(n) == <<DigitChar(n \div 10), DigitChar(n % 10)>>

\* "HH:MM"
ClockText(h, m) == TwoDigits(h) \o <<":">> \o TwoDigits(m)

Anchors == {[day |-> d, minute |-> m] : d \in {0, 100}, m \in {0, 600, 1439}}

ClockHours == {0, 8, 9, 23}

ClockMinutes == {0, 40, 59}

Weekdays == 1..7

InitProj ==
    /\ IdleRun
    /\ \E a \in Anchors, w \in 1..MaxProjWeek, d \in Weekdays :
          \/ \E h \in ClockHours, m \in ClockMinutes :
                call = [fn |-> "convert_to_datetime", anchor |-> a, week |-> w, weekday |-> d,
                        hh |-> h, mm |-> m, time |-> ClockText(h, m),
                        done |-> FALSE, ret |-> Ok(a)]
          \/ call = [fn |-> "convert_to_date", anchor |-> a, week |-> w, weekday |-> d,
                     done |-> FALSE, ret |-> 0]

DatetimeCall ==
    /\ call.fn = "convert_to_datetime"
    /\ ~call.done
    /\ call' = [call EXCEPT !.done = TRUE,
                            !.ret = convert_to_datetime(call.anchor, call.week,
                                                        call.weekday, call.time)]
    /\ UNCHANGED <<first_monday, class_list, pc, idx, events, output_file, error>>

DateCall ==
    /\ call.fn = "convert_to_date"
    /\ ~call.done
    /\ call' = [call EXCEPT !.done = TRUE,
                            !.ret = convert_to_date(call.anchor, call.week, call.weekday)]
    /\ UNCHANGED <<first_monday, class_list, pc, idx, events, output_file, error>>

NextProj == DatetimeCall \/ DateCall

SpecProj == InitProj /\ [][NextProj]_vars

(***************************************************************************)
(* Vocabulary of the properties.                                           *)
(***************************************************************************)
\* the week ranges and the weekday of the i-th entry, as the run reads them
EntryRanges(i) == parse_week_ranges(class_list[i].zcd).val

EntryWeekday(i) == PyInt(class_list[i].xqj).val

FirstWeek(wr) == wr[1][1]

LastWeek(wr) == wr[Len(wr)][Len(wr[Len(wr)])]

\* week w lies in one of the inclusive ranges
InSomeRange(w, wr) == \E r \in 1..Len(wr) : wr[r][1] <= w /\ w <= wr[r][Len(wr[r])]

\* every range has startWeek <= endWeek
WellFormed(wr) == \A r \in 1..Len(wr) : wr[r][1] <= wr[r][Len(wr[r])]

\* the day of a weekday of a week, counted from the anchor
DayOf(w, wd) == first_monday.day + 7 * (w - 1) + (wd - 1)

\* a finite set of integers in ascending order
Ascending(S) ==
    [k \in 1..Cardinality(S) |-> CHOOSE x \in S : Cardinality({y \in S : y < x}) = k - 1]

\* the clock of the sample timetable, in minutes after midnight
PeriodStartMinute(key) ==
    CASE key = <<"1">> -> 8 * 60 [] key = <<"2">> -> 8 * 60 + 55 [] key = <<"3">> -> 10 * 60

PeriodEndMinute(key) ==
    CASE key = <<"1">> -> 8 * 60 + 45 [] key = <<"2">> -> 9 * 60 + 40 [] key = <<"3">> -> 10 * 60 + 45

\* text `name` occurs in text `msg`
Mentions(msg, name) ==
    \E p \in 1..Len(msg) : p + Len(name) - 1 <= Len(msg) /\ SubSeq(msg, p, p + Len(name) - 1) = name

FieldNames == {<<"z", "c", "d">>, <<"j", "c", "o", "r">>, <<"x", "q", "j">>}

EntryFails(i) == ~TranslateEntry(first_monday, Configs, class_list[i]).ok

(***************************************************************************)
(* Properties.                                                             *)
(***************************************************************************)
\* C1: the exception dates of every emitted event are the dates of exactly the
\* weeks w with firstWeek <= w <= lastWeek - 1 that lie in no week range, in
\* ascending week order; [[1,4],[6,8]] gives the date of week 5 alone.
C1_ExceptionWeeksAreUncoveredSweptWeeks ==
    \A i \in 1..Len(events) :
        \A wr \in {EntryRanges(i)}, wd \in {EntryWeekday(i)} :
            \A asc \in {Ascending({w \in FirstWeek(wr)..(LastWeek(wr) - 1) : ~InSomeRange(w, wr)})} :
                /\ events[i].exdate = [k \in 1..Len(asc) |-> DayOf(asc[k], wd)]
                /\ wr = <<<<1, 4>>, <<6, 8>>>> => events[i].exdate = <<DayOf(5, wd)>>

C1_Witness ==
    \E i \in 1..Len(events) :
        /\ EntryRanges(i) = <<<<1, 4>>, <<6, 8>>>>
        /\ events[i].exdate = <<DayOf(5, EntryWeekday(i))>>

\* C2: for an entry whose week ranges all have startWeek <= endWeek, the
\* exception dates are the dates of exactly the weeks of the inclusive span
\* firstWeek..lastWeek that no range covers, each once, so the weeks of the
\* span left un-suppressed are exactly the covered weeks of the span.
C2_ExceptionsAreUncoveredWeeksOfInclusiveSpan ==
    \A i \in 1..Len(events) :
        \A wr \in {EntryRanges(i)}, wd \in {EntryWeekday(i)}, ex \in {events[i].exdate} :
            \A span \in {FirstWeek(wr)..LastWeek(wr)} :
                WellFormed(wr) =>
                  /\ Elems(ex) = {DayOf(w, wd) : w \in {v \in span : ~InSomeRange(v, wr)}}
                  /\ Len(ex) = Cardinality({v \in span : ~InSomeRange(v, wr)})
                  /\ {w \in span : DayOf(w, wd) \notin Elems(ex)}
                        = {w \in span : InSomeRange(w, wr)}

C2_Witness ==
    \E i \in 1..Len(events) :
        /\ WellFormed(EntryRanges(i))
        /\ EntryRanges(i) = <<<<10, 12>>, <<16>>>>
        /\ Len(events[i].exdate) = 3

\* C3: the recurrence rule of every emitted event is WEEKLY, interval 1, with
\* count = lastWeek - firstWeek + 1, whatever the ranges cover.
C3_RecurrenceCountSpansFirstToLast ==
    \A i \in 1..Len(events) :
        \A wr \in {EntryRanges(i)} :
            events[i].rrule = [freq |-> "WEEKLY", interval |-> 1,
                               count |-> LastWeek(wr) - FirstWeek(wr) + 1]

C3_Witness ==
    \E i \in 1..Len(events) :
        \E wr \in {EntryRanges(i)} :
            /\ WellFormed(wr)
            /\ events[i].rrule.count = 3
            /\ Cardinality({w \in FirstWeek(wr)..LastWeek(wr) : InSomeRange(w, wr)}) = 2

\* an aborted run stopped at its first failing entry and left no file; a file
\* exists only when every entry has been translated
C4_AbortInvariant ==
    /\ pc = "aborted" =>
          /\ error # NoError
          /\ idx \in 1..Len(class_list)
          /\ EntryFails(idx)
          /\ \A j \in 1..(idx - 1) : ~EntryFails(j)
          /\ Len(events) = idx - 1
          /\ output_file = NoFile
    /\ (\E i \in 1..Len(class_list) : EntryFails(i)) =>
          output_file = NoFile /\ pc \notin {"write", "done"}
    /\ output_file # NoFile =>
          error = NoError /\ Len(events) = Len(class_list) /\ idx = Len(class_list) + 1
    /\ output_file.state = "written" => output_file.events = events

\* C4: when the translation of an entry fails the run stops at that entry with
\* its error, nothing happens afterwards, and the output file is untouched; the
\* file is opened only when every entry has been translated.
C4_FailureAbortsBeforeOutput ==
    [](C4_AbortInvariant) /\ [][pc = "aborted" => UNCHANGED vars]_vars

C4_Witness ==
    /\ pc = "aborted"
    /\ idx = 2
    /\ Len(class_list) = 3
    /\ ~EntryFails(3)
    /\ Len(events) = 1
    /\ error.type = "ValueError"
    /\ output_file = NoFile

\* the events are the translations of the first entries, each a function of
\* its own entry
C5_PrefixInvariant ==
    /\ Len(events) <= Len(class_list)
    /\ \A i \in 1..Len(events) :
          events[i] = TranslateEntry(first_monday, Configs, class_list[i]).val
    /\ \A i, j \in 1..Len(events) : class_list[i] = class_list[j] => events[i] = events[j]
    /\ pc = "loop" => Len(events) = idx - 1
    /\ pc = "done" => Len(events) = Len(class_list) /\ output_file.events = events

\* a step appends one event or leaves the events alone
C5_AppendOnly ==
    \/ events' = events
    \/ /\ Len(events') = Len(events) + 1
       /\ SubSeq(events', 1, Len(events)) = events

\* C5: the events are at every step the translations of a prefix of the
\* entries, in input order; a step appends one event or leaves them alone; a
\* finished run holds one event per entry.
C5_OneEventPerEntryInOrder == [](C5_PrefixInvariant) /\ [][C5_AppendOnly]_vars

C5_Witness ==
    /\ pc = "done"
    /\ Len(events) = 3
    /\ events[1].summary # events[2].summary
    /\ events[1].exdate # events[2].exdate

\* C6: convert_to_datetime returns the anchor moved by 7*(week-1) + (weekday-1)
\* days, HH hours and MM minutes; convert_to_date returns the anchor's date
\* moved by 7*(week-1) + (weekday-1) days; for an anchor at midnight the date
\* of the former is the latter.
C6_ProjectorArithmetic ==
    call.fn \in {"convert_to_datetime", "convert_to_date"} /\ call.done =>
        LET a    == call.anchor
            days == 7 * (call.week - 1) + (call.weekday - 1)
        IN  IF call.fn = "convert_to_date"
            THEN /\ call.ret = a.day + days
                 /\ call.week = 3 /\ call.weekday = 5 => call.ret = a.day + 18
            ELSE /\ call.ret.ok
                 /\ call.ret.val.minute \in 0..1439
                 /\ 1440 * call.ret.val.day + call.ret.val.minute
                       = 1440 * (a.day + days) + a.minute + 60 * call.hh + call.mm
                 /\ a.minute = 0 =>
                       call.ret.val.day = convert_to_date(a, call.week, call.weekday)
                 /\ a.minute = 0 /\ call.week = 1 /\ call.weekday = 1
                       /\ call.hh = 8 /\ call.mm = 0 =>
                       call.ret.val = [day |-> a.day, minute |-> 480]

C6_Witness ==
    /\ call.fn = "convert_to_datetime"
    /\ call.done
    /\ call.anchor.minute = 1439
    /\ call.week = 3
    /\ call.weekday = 5
    /\ call.ret.val = [day |-> call.anchor.day + 19, minute |-> 9 * 60 + 39]

\* C7 as stated: parse_week_ranges returns one [start, end] pair per token, in
\* source order, also for a single-week token.
C7_OnePairPerToken ==
    call.fn = "parse_week_ranges" /\ call.done =>
        /\ call.ret.ok
        /\ Len(call.ret.val) = Len(call.tokens)
        /\ \A k \in 1..Len(call.tokens) :
              call.ret.val[k] = <<call.tokens[k][1], call.tokens[k][Len(call.tokens[k])]>>

\* C7 amended: parse_week_ranges returns one integer list per token, in
\* source order: [start, end] for a
\* "<start>-<end>w" token and the one-element list [n] for a "<n>w" token.
C7_OneListPerToken ==
    call.fn = "parse_week_ranges" /\ call.done =>
        /\ call.ret.ok
        /\ Len(call.ret.val) = Len(call.tokens)
        /\ \A k \in 1..Len(call.tokens) : call.ret.val[k] = call.tokens[k]

C7_Witness ==
    /\ call.fn = "parse_week_ranges"
    /\ call.done
    /\ call.tokens = <<<<10, 12>>, <<3>>>>
    /\ call.ret.val = <<<<10, 12>>, <<3>>>>

\* C8: dtstart and dtend of every emitted event lie on the weekday of the start
\* week of the first range, at the start clock of the first period and the
\* end clock of the last period of the entry.
C8_StartAndEndInFirstWeek ==
    \A i \in 1..Len(events) :
        \A e \in {class_list[i]}, day \in {DayOf(FirstWeek(EntryRanges(i)), EntryWeekday(i))} :
            /\ events[i].dtstart = [day |-> day, minute |-> PeriodStartMinute(<<e.jcor[1]>>)]
            /\ events[i].dtend = [day |-> day, minute |-> PeriodEndMinute(<<e.jcor[Len(e.jcor)]>>)]
            /\ events[i].dtstart.day = events[i].dtend.day

C8_Witness ==
    \E i \in 1..Len(events) :
        /\ Len(EntryRanges(i)) = 2
        /\ LastWeek(EntryRanges(i)) > FirstWeek(EntryRanges(i))
        /\ class_list[i].jcor = <<"1", "-", "2">>
        /\ events[i].dtstart.minute = 480
        /\ events[i].dtend.minute = 580

\* C9 as stated: the error of an aborted run names the course of the failing
\* entry and the field that failed.
C9_ErrorNamesCourseAndField ==
    pc = "aborted" =>
        /\ Mentions(error.msg, class_list[idx].kcmc)
        /\ \E f \in FieldNames : Mentions(error.msg, f)

\* C10: for an entry whose week ranges all have startWeek <= endWeek, every
\* exception date is the date of dtstart plus 7*k days with 1 <= k <= count - 2,
\* and the exception dates increase strictly.
C10_ExceptionsAreInnerOccurrences ==
    \A i \in 1..Len(events) :
        \A ev \in {events[i]}, wr \in {EntryRanges(i)} :
            WellFormed(wr) =>
              \A k \in 1..Len(ev.exdate) :
                  /\ \E j \in 1..(ev.rrule.count - 2) : ev.exdate[k] = ev.dtstart.day + 7 * j
                  /\ k > 1 => ev.exdate[k - 1] < ev.exdate[k]

C10_Witness ==
    \E i \in 1..Len(events) :
        /\ WellFormed(EntryRanges(i))
        /\ EntryWeekday(i) = 5
        /\ Len(events[i].exdate) = 3
        /\ events[i].rrule.count = 7
        /\ events[i].exdate[3] = events[i].dtstart.day + 35

====
